---- MODULE Spec2Model ----
(***************************************************************************)
(* PDF to Markdown conversion: the per-file job of PDFConverter            *)
(* (pdf_converter_enhanced.py) and the multiprocessing dispatcher          *)
(* (parallel_pdf_converter.py).                                            *)
(*                                                                         *)
(* Strings are sequences of string tokens, so that formatting, joining and *)
(* suffix replacement are computed, not assumed.  A path below the output  *)
(* root is a sequence of names; a name is a sequence of tokens.            *)
(***************************************************************************)
EXTENDS Integers, Sequences, FiniteSets, TLC

VARIABLES
    pdf_files,      \* list of source PDFs, each a path relative to source_dir
    docs,           \* docs[i]: what the extraction engine sees in pdf_files[i]
    beh,            \* beh[i]: where the engines / the OS fail for pdf_files[i]
    embed_images,   \* --embed-images
    num_workers,    \* size of the mp.Pool
    fs,             \* the tree under output_dir: path -> node
    job,            \* job[i]: the state of process_single_pdf(pdf_info_list[i])
    writes,         \* history: <<i, path>> for every path job i created or wrote
    results,        \* what pool.map has collected, by input index
    dpc,            \* position of process_pdfs_parallel
    successful,     \* sum(results)
    pool_terminated,\* pool.terminate() was called in an except branch
    tree,           \* the tree under source_dir: path -> node; no root: no source_dir
    case_fold,      \* the platform's glob matching ignores letter case
    image_folder,   \* --image-folder of the v1 converter, a relative path
    run,            \* which invocation of the tool this is
    first_md        \* the Markdown files the first invocation left

vars == <<pdf_files, docs, beh, embed_images, num_workers, fs, job, writes,
          results, dpc, successful, pool_terminated, tree, case_fold,
          image_folder, run, first_md>>

inputs == <<pdf_files, docs, beh, embed_images, num_workers>>

\* the command line, the source tree and the invocation: no step of a run changes them
env == <<tree, case_fold, image_folder, run, first_md>>

\* ------------------------------------------------------------------ bounds

MaxPages == 2
MaxImgs == 2
NumFiles == 2
MaxWorkers == 3
MaxEntries == 2

\* ------------------------------------------------------- strings and names

DigitStr == <<"0", "1", "2", "3", "4", "5", "6", "7", "8", "9">>

RECURSIVE Decimal(_)
\* str(n) for n >= 0
Decimal(n) ==
    IF n < 10 THEN <<DigitStr[n + 1]>>
    ELSE Decimal(n \div 10) \o <<DigitStr[(n % 10) + 1]>>

RECURSIVE ZeroFill(_, _)
ZeroFill(s, width) ==
    IF Len(s) >= width THEN s ELSE ZeroFill(<<"0">> \o s, width)

\* f"{n:03d}", f"{n:02d}": decimal digits zero-padded to a minimum width
Pad(n, width) == ZeroFill(Decimal(n), width)

RECURSIVE Join(_)
\* "\n".join(parts)
Join(parts) ==
    IF Len(parts) = 0 THEN <<>>
    ELSE IF Len(parts) = 1 THEN parts[1]
    ELSE parts[1] \o <<"\n">> \o Join(Tail(parts))

Front(s) == SubSeq(s, 1, Len(s) - 1)

Last(s) == s[Len(s)]

\* index of the last "." of a name that starts a suffix, 0 when there is none
\* (a leading dot and a trailing dot start no suffix)
SuffixDot(name) ==
    LET dots == {j \in 2..(Len(name) - 1) : name[j] = "."}
    IN  IF dots = {} THEN 0 ELSE CHOOSE j \in dots : \A k \in dots : k <= j

\* PurePath.with_suffix(".md")
WithSuffixMd(name) ==
    LET d == SuffixDot(name)
    IN  (IF d = 0 THEN name ELSE SubSeq(name, 1, d - 1)) \o <<".", "md">>

ImagesName == <<"images">>

\* output_dir / relative_path.with_suffix(".md"), as a path below output_dir
OutputPath(rel) == Front(rel) \o <<WithSuffixMd(Last(rel))>>

\* output_path.parent / "images"
ImageFolder(rel) == Front(OutputPath(rel)) \o <<ImagesName>>

\* mutant: the 0-based img_index is formatted as it is
ImageFilenameZeroBased(page_num, img_index, img_ext) ==
    <<"image_">> \o Pad(page_num, 3) \o <<"_">> \o Pad(img_index, 2)
        \o <<".", img_ext>>

\* f"image_{page_num:03d}_{img_index+1:02d}.{img_ext}", img_index 0-based
ImageFilename(page_num, img_index, img_ext) ==
    <<"image_">> \o Pad(page_num, 3) \o <<"_">> \o Pad(img_index + 1, 2)
        \o <<".", img_ext>>

\* ------------------------------------------------------------- filesystem

DirNode == [kind |-> "dir", data |-> <<>>]

FileNode(data) == [kind |-> "file", data |-> data]

Prefixes(p) == {SubSeq(p, 1, n) : n \in 0..Len(p)}

IsDir(f, p) == p \in DOMAIN f /\ f[p].kind = "dir"

IsFile(f, p) == p \in DOMAIN f /\ f[p].kind = "file"

\* Path.mkdir(parents=True, exist_ok=True) raises iff a component is a non-directory
MkdirOk(f, p) == \A q \in Prefixes(p) : q \in DOMAIN f => f[q].kind = "dir"

Mkdir(f, p) ==
    [q \in DOMAIN f \cup Prefixes(p) |-> IF q \in DOMAIN f THEN f[q] ELSE DirNode]

\* open(path, "w") / open(path, "wb") raises iff the parent is no directory or the
\* path is a directory; otherwise the file is created or truncated
OpenOk(f, p) == IsDir(f, Front(p)) /\ ~IsDir(f, p)

\* mutant: the file is opened for appending
OpenWAppend(f, p) ==
    [q \in DOMAIN f \cup {p} |->
        IF q # p THEN f[q] ELSE IF IsFile(f, p) THEN f[p] ELSE FileNode(<<>>)]

OpenW(f, p) == [q \in DOMAIN f \cup {p} |-> IF q = p THEN FileNode(<<>>) ELSE f[q]]

\* f.write(data) on a file opened by OpenW: the file holds what was written
WriteData(f, p, data) == [f EXCEPT ![p] = FileNode(f[p].data \o data)]

\* ------------------------------------------------ the engines' raw material

\* page.get_text() for page page_num of pdf_files[i]
PageText(i, page_num) == <<"text">> \o Decimal(i) \o <<":">> \o Decimal(page_num)

\* base_image["ext"] and base_image["image"] of image img_index of a page
ImgExt(img_index) == IF img_index % 2 = 0 THEN "png" ELSE "jpeg"

ImgBytes(i, page_num, img_index) ==
    <<"bytes">> \o Decimal(i) \o <<":">> \o Decimal(page_num) \o <<":">>
        \o Decimal(img_index)

\* base64.b64encode(img_bytes).decode()
B64(bytes) == <<"b64(">> \o bytes \o <<")">>

\* markitdown.convert(str(pdf_path)) when it succeeds
FallbackText(i) == <<"markitdown">> \o Decimal(i)

\* ----------------------------------------------------- Markdown fragments

\* f"### Page {page_num}\n\n{text}\n"
PageFragment(page_num, text) ==
    <<"### Page ">> \o Decimal(page_num) \o <<"\n", "\n">> \o text \o <<"\n">>

\* f"![Image](data:image/{img_ext};base64,{encoded})\n"
EmbedFragment(img_ext, encoded) ==
    <<"![Image](", "data:image/", img_ext, ";base64,">> \o encoded \o <<")", "\n">>

\* rel_path = f"images/{image_filename}"
RelPath(image_filename) == <<"images", "/">> \o image_filename

\* f"![Image]({rel_path})\n"
RefFragment(rel_path) == <<"![Image](">> \o rel_path \o <<")", "\n">>

\* --------------------------------------------------------- failure plans

NoFail == [kind |-> "none", p |-> 0, k |-> 0]

Fail(kind, p, k) == [kind |-> kind, p |-> p, k |-> k]

\* the places inside the try block of convert_pdf_with_pymupdf that can raise
PrimFailures(doc, embed) ==
    {Fail("open", 0, 0), Fail("mdopen", 0, 0), Fail("mdwrite", 0, 0),
     Fail("close", 0, 0)}
    \cup {Fail("text", p, 0) : p \in 1..Len(doc)}
    \cup UNION {{Fail(kd, p, k) : k \in 0..(doc[p] - 1),
                 kd \in IF embed THEN {"extract"}
                        ELSE {"extract", "mkdir", "imgwrite"}} : p \in 1..Len(doc)}

\* the places inside the try block of convert_pdf_with_markitdown that can raise
FbFailures == {"convert", "open", "write"}

BehSet(doc, embed) ==
    {[start |-> TRUE, prim |-> NoFail, fb |-> "none"],
     [start |-> FALSE, prim |-> NoFail, fb |-> "none"]}
    \cup {[start |-> FALSE, prim |-> pf, fb |-> ff] :
            pf \in PrimFailures(doc, embed), ff \in FbFailures \cup {"none"}}

PrimFails(i, kind, p, k) == beh[i].prim = Fail(kind, p, k)

\* a document is the sequence of its pages' image counts
DocSet == UNION {[1..n -> 0..MaxImgs] : n \in 0..MaxPages}

\* ------------------------------------------------------------ one job
\* A job is process_single_pdf(pdf_info_list[i]).  Each step below is one stretch
\* of its code between two points where another process can see the filesystem;
\* it maps the job's record js and the filesystem f to the record, the filesystem
\* and the set of file paths the step created or wrote.

Queued ==
    [pc |-> "queued", page |-> 0, img |-> 0, parts |-> <<>>, image_count |-> 0,
     prim |-> "none", fb |-> "none", fb_calls |-> 0, raised |-> FALSE,
     worker |-> 0, runs |-> 0, reports |-> 0]

Res(js, f, wrote) == [js |-> js, f |-> f, wrote |-> wrote]

\* mutant: process_pdf returns after a failed primary attempt without falling back
AfterPrimaryNoFallback(success) == "ret"

\* process_pdf: success = convert_pdf_with_pymupdf(...); if not success: fallback
AfterPrimary(success) == IF success THEN "ret" ELSE "fallback"

\* the except branch of convert_pdf_with_pymupdf: log, return False
PrimaryRaised(js) == [js EXCEPT !.prim = "failed", !.pc = AfterPrimary(FALSE)]

\* the except branch of convert_pdf_with_markitdown: log, return None
FallbackRaised(js) == [js EXCEPT !.fb = "failed", !.pc = "ret"]

\* process_single_pdf up to the call of convert_pdf_with_pymupdf: the converter is
\* built, the output path derived, its parent directories created
StartJob(i, js, f) ==
    LET parent == Front(OutputPath(pdf_files[i]))
    IN  IF beh[i].start \/ ~MkdirOk(f, parent)
        THEN Res([js EXCEPT !.raised = TRUE, !.pc = "ret"], f, {})
        ELSE Res([js EXCEPT !.pc = "open"], Mkdir(f, parent), {})

\* where the page loop goes after page page_num, image img_index (0-based; -1: the
\* page's text was just appended)
LoopNext(i, js, page_num, img_index) ==
    IF img_index + 1 < docs[i][page_num]
    THEN [js EXCEPT !.pc = "image", !.page = page_num, !.img = img_index + 1]
    ELSE IF page_num < Len(docs[i])
    THEN [js EXCEPT !.pc = "page", !.page = page_num + 1, !.img = 0]
    ELSE [js EXCEPT !.pc = "mdopen"]

\* mutant: the output file is opened before the document is read
OpenDocOpensOutput(i, js, f) ==
    IF PrimFails(i, "open", 0, 0)
    THEN Res([js EXCEPT !.prim = "failed", !.pc = "fallback"], f, {})
    ELSE Res([js EXCEPT !.pc = IF Len(docs[i]) = 0 THEN "mdopen" ELSE "page",
                        !.page = 1, !.img = 0, !.parts = <<>>,
                        !.image_count = 0],
             OpenW(f, OutputPath(pdf_files[i])), {OutputPath(pdf_files[i])})

\* doc = fitz.open(str(pdf_path)); markdown_parts = []; image_count = 0
OpenDoc(i, js, f) ==
    IF PrimFails(i, "open", 0, 0)
    THEN Res(PrimaryRaised(js), f, {})
    ELSE Res([js EXCEPT !.pc = IF Len(docs[i]) = 0 THEN "mdopen" ELSE "page",
                        !.page = 1, !.img = 0, !.parts = <<>>,
                        !.image_count = 0], f, {})

\* mutant: the page's fragment is inserted at the front of markdown_parts
PageStepPrepend(i, js, f) ==
    IF PrimFails(i, "text", js.page, 0)
    THEN Res([js EXCEPT !.prim = "failed", !.pc = "fallback"], f, {})
    ELSE LET js1 == [js EXCEPT !.parts =
                        <<PageFragment(js.page, PageText(i, js.page))>> \o @]
         IN  Res(LoopNext(i, js1, js.page, -1), f, {})

\* text = page.get_text(); markdown_parts.append(header and text);
\* images = page.get_images(full=True)
PageStep(i, js, f) ==
    IF PrimFails(i, "text", js.page, 0)
    THEN Res(PrimaryRaised(js), f, {})
    ELSE LET js1 == [js EXCEPT !.parts =
                        Append(@, PageFragment(js.page, PageText(i, js.page)))]
         IN  Res(LoopNext(i, js1, js.page, -1), f, {})

\* mutant: in embed mode the image is written to the image folder as well
ImageStepWritesToo(i, js, f) ==
    LET p        == js.page
        k        == js.img
        ext      == ImgExt(k)
        bytes    == ImgBytes(i, p, k)
        filename == ImageFilename(p, k, ext)
        folder   == ImageFolder(pdf_files[i])
        path     == folder \o <<filename>>
        counted  == [js EXCEPT !.image_count = @ + 1]
    IN  IF PrimFails(i, "extract", p, k)
        THEN Res([js EXCEPT !.prim = "failed", !.pc = "fallback"], f, {})
        ELSE Res(LoopNext(i, [counted EXCEPT !.parts =
                    Append(@, IF embed_images THEN EmbedFragment(ext, B64(bytes))
                              ELSE RefFragment(RelPath(filename)))], p, k),
                 WriteData(OpenW(Mkdir(f, folder), path), path, bytes), {path})

\* mutant: a failed image write is swallowed and the loop goes on without the image
ImageStepDropsImage(i, js, f) ==
    LET p        == js.page
        k        == js.img
        ext      == ImgExt(k)
        bytes    == ImgBytes(i, p, k)
        filename == ImageFilename(p, k, ext)
        folder   == ImageFolder(pdf_files[i])
        path     == folder \o <<filename>>
        counted  == [js EXCEPT !.image_count = @ + 1]
    IN  IF PrimFails(i, "extract", p, k)
        THEN Res([js EXCEPT !.prim = "failed", !.pc = "fallback"], f, {})
        ELSE IF embed_images
        THEN Res(LoopNext(i, [counted EXCEPT !.parts =
                    Append(@, EmbedFragment(ext, B64(bytes)))], p, k), f, {})
        ELSE IF PrimFails(i, "mkdir", p, k) \/ PrimFails(i, "imgwrite", p, k)
                \/ ~MkdirOk(f, folder) \/ ~OpenOk(Mkdir(f, folder), path)
        THEN Res(LoopNext(i, counted, p, k), f, {})
        ELSE Res(LoopNext(i, [counted EXCEPT !.parts =
                    Append(@, RefFragment(RelPath(filename)))], p, k),
                 WriteData(OpenW(Mkdir(f, folder), path), path, bytes), {path})

\* one turn of the image loop: extract, then embed or write to the image folder
ImageStep(i, js, f) ==
    LET p        == js.page
        k        == js.img
        ext      == ImgExt(k)
        bytes    == ImgBytes(i, p, k)
        filename == ImageFilename(p, k, ext)
        folder   == ImageFolder(pdf_files[i])
        path     == folder \o <<filename>>
        counted  == [js EXCEPT !.image_count = @ + 1]
    IN  IF PrimFails(i, "extract", p, k)
        THEN Res(PrimaryRaised(js), f, {})
        ELSE IF embed_images
        THEN Res(LoopNext(i, [counted EXCEPT !.parts =
                    Append(@, EmbedFragment(ext, B64(bytes)))], p, k), f, {})
        ELSE IF PrimFails(i, "mkdir", p, k) \/ ~MkdirOk(f, folder)
        THEN Res(PrimaryRaised(counted), f, {})
        ELSE IF ~OpenOk(Mkdir(f, folder), path)
        THEN Res(PrimaryRaised(counted), Mkdir(f, folder), {})
        ELSE IF PrimFails(i, "imgwrite", p, k)
        THEN Res(PrimaryRaised(counted), OpenW(Mkdir(f, folder), path), {path})
        ELSE Res(LoopNext(i, [counted EXCEPT !.parts =
                    Append(@, RefFragment(RelPath(filename)))], p, k),
                 WriteData(OpenW(Mkdir(f, folder), path), path, bytes), {path})

\* v1: local_image_folder = output_path.parent / image_folder
ImageFolderV1(rel) == Front(OutputPath(rel)) \o image_folder

\* v1: rel_path = f"{image_folder.name}/{image_filename}", .name the last component
RelPathV1(image_filename) == Last(image_folder) \o <<"/">> \o image_filename

\* v1: one turn of the image loop of convert_pdf_with_pymupdf
ImageStepV1(i, js, f) ==
    LET p        == js.page
        k        == js.img
        ext      == ImgExt(k)
        bytes    == ImgBytes(i, p, k)
        filename == ImageFilename(p, k, ext)
        folder   == ImageFolderV1(pdf_files[i])
        path     == folder \o <<filename>>
        counted  == [js EXCEPT !.image_count = @ + 1]
    IN  IF PrimFails(i, "extract", p, k)
        THEN Res(PrimaryRaised(js), f, {})
        ELSE IF embed_images
        THEN Res(LoopNext(i, [counted EXCEPT !.parts =
                    Append(@, EmbedFragment(ext, B64(bytes)))], p, k), f, {})
        ELSE IF PrimFails(i, "mkdir", p, k) \/ ~MkdirOk(f, folder)
        THEN Res(PrimaryRaised(counted), f, {})
        ELSE IF ~OpenOk(Mkdir(f, folder), path)
        THEN Res(PrimaryRaised(counted), Mkdir(f, folder), {})
        ELSE IF PrimFails(i, "imgwrite", p, k)
        THEN Res(PrimaryRaised(counted), OpenW(Mkdir(f, folder), path), {path})
        ELSE Res(LoopNext(i, [counted EXCEPT !.parts =
                    Append(@, RefFragment(RelPathV1(filename)))], p, k),
                 WriteData(OpenW(Mkdir(f, folder), path), path, bytes), {path})

\* with open(output_path, "w", encoding="utf-8") as md_file:
OpenOutput(i, js, f) ==
    LET out == OutputPath(pdf_files[i])
    IN  IF PrimFails(i, "mdopen", 0, 0) \/ ~OpenOk(f, out)
        THEN Res(PrimaryRaised(js), f, {})
        ELSE Res([js EXCEPT !.pc = "mdwrite"], OpenW(f, out), {out})

\* what reaches the file when a write of data fails part way
Partial(data) == SubSeq(data, 1, IF Len(data) = 0 THEN 0 ELSE 1)

\* md_file.write("\n".join(markdown_parts))
WriteOutput(i, js, f) ==
    LET out  == OutputPath(pdf_files[i])
        text == Join(js.parts)
    IN  IF PrimFails(i, "mdwrite", 0, 0)
        THEN Res(PrimaryRaised(js), WriteData(f, out, Partial(text)), {out})
        ELSE Res([js EXCEPT !.pc = "close"], WriteData(f, out, text), {out})

\* logging.info(...); doc.close(); return True
CloseDoc(i, js, f) ==
    IF PrimFails(i, "close", 0, 0)
    THEN Res(PrimaryRaised(js), f, {})
    ELSE Res([js EXCEPT !.prim = "ok", !.pc = AfterPrimary(TRUE)], f, {})

\* mutant: the fallback first removes the image folder the primary attempt filled
FallbackRemovesImages(i, js, f) ==
    LET called == [js EXCEPT !.fb_calls = @ + 1]
        folder == ImageFolder(pdf_files[i])
        kept   == {q \in DOMAIN f : Len(q) < Len(folder)
                                        \/ SubSeq(q, 1, Len(folder)) # folder}
        g      == [q \in kept |-> f[q]]
    IN  IF beh[i].fb = "convert"
        THEN Res([called EXCEPT !.fb = "failed", !.pc = "ret"], g, {})
        ELSE Res([called EXCEPT !.pc = "fbopen"], g, {})

\* convert_pdf_with_markitdown: output = markitdown.convert(str(pdf_path))
Fallback(i, js, f) ==
    LET called == [js EXCEPT !.fb_calls = @ + 1]
    IN  IF beh[i].fb = "convert"
        THEN Res(FallbackRaised(called), f, {})
        ELSE Res([called EXCEPT !.pc = "fbopen"], f, {})

\* mutant: the fallback opens the output file in append mode
FallbackOpenAppend(i, js, f) ==
    LET out == OutputPath(pdf_files[i])
    IN  IF beh[i].fb = "open" \/ ~OpenOk(f, out)
        THEN Res([js EXCEPT !.fb = "failed", !.pc = "ret"], f, {})
        ELSE Res([js EXCEPT !.pc = "fbwrite"],
                 IF IsFile(f, out) THEN f ELSE OpenW(f, out), {out})

\* with open(output_path, "w", encoding="utf-8") as f:
FallbackOpen(i, js, f) ==
    LET out == OutputPath(pdf_files[i])
    IN  IF beh[i].fb = "open" \/ ~OpenOk(f, out)
        THEN Res(FallbackRaised(js), f, {})
        ELSE Res([js EXCEPT !.pc = "fbwrite"], OpenW(f, out), {out})

\* f.write(output)
FallbackWrite(i, js, f) ==
    LET out == OutputPath(pdf_files[i])
    IN  IF beh[i].fb = "write"
        THEN Res(FallbackRaised(js), WriteData(f, out, Partial(FallbackText(i))),
                 {out})
        ELSE Res([js EXCEPT !.fb = "ok", !.pc = "ret"],
                 WriteData(f, out, FallbackText(i)), {out})

\* mutant: process_single_pdf without its try/except: the exception leaves the task
ProcessSinglePdfUncaught(js) == IF js.raised THEN "exc" ELSE "True"

\* process_single_pdf: return True, or return False from the except branch
ProcessSinglePdfResult(js) == IF js.raised THEN "False" ELSE "True"

\* the step of job i at js.pc
JobStep(i, js, f) ==
    CASE js.pc = "start"    -> StartJob(i, js, f)
      [] js.pc = "open"     -> OpenDoc(i, js, f)
      [] js.pc = "page"     -> PageStep(i, js, f)
      [] js.pc = "image"    -> ImageStep(i, js, f)
      [] js.pc = "mdopen"   -> OpenOutput(i, js, f)
      [] js.pc = "mdwrite"  -> WriteOutput(i, js, f)
      [] js.pc = "close"    -> CloseDoc(i, js, f)
      [] js.pc = "fallback" -> Fallback(i, js, f)
      [] js.pc = "fbopen"   -> FallbackOpen(i, js, f)
      [] js.pc = "fbwrite"  -> FallbackWrite(i, js, f)
      [] js.pc = "ret"      -> Res([js EXCEPT !.pc = "done"], f, {})

\* a whole job run alone on filesystem f (what a pool of one worker does with
\* each task in turn): the record and the filesystem when it returns
RECURSIVE RunJob(_, _, _)
RunJob(i, js, f) ==
    IF js.pc = "done" THEN [js |-> js, f |-> f]
    ELSE LET r == JobStep(i, js, f) IN RunJob(i, r.js, r.f)

\* ------------------------------------------------------------- the pool

Tasks == 1..Len(pdf_files)

Active == {i \in Tasks : job[i].pc \notin {"queued", "done"}}

\* the lowest worker of the pool that is running no task
FreeWorker ==
    CHOOSE w \in 1..num_workers :
        /\ \A i \in Active : job[i].worker # w
        /\ \A v \in 1..(w - 1) : \E i \in Active : job[i].worker = v

\* pool.map hands the tasks out in list order, each to one idle worker
CanTake(i) ==
    /\ job[i].pc = "queued"
    /\ \A j \in 1..(i - 1) : job[j].pc # "queued"
    /\ Cardinality(Active) < num_workers

\* mutant: map returns as soon as one task has reported
MapReadyAny == \E i \in Tasks : results[i] # "pending"

\* pool.map returns (or raises) once every task has reported
MapReady == \A i \in Tasks : results[i] # "pending"

\* sum(results)
SumResults(res) == Cardinality({i \in DOMAIN res : res[i] = "True"})

\* ------------------------------------------------------------- actions

TakeTask(i) ==
    /\ dpc = "map"
    /\ CanTake(i)
    /\ job' = [job EXCEPT ![i] = [@ EXCEPT !.pc = "start", !.worker = FreeWorker,
                                           !.runs = @ + 1]]
    /\ UNCHANGED <<inputs, env, fs, writes, results, dpc, successful, pool_terminated>>

\* job i takes the step whose effect is r
Apply(i, r) ==
    /\ job' = [job EXCEPT ![i] = r.js]
    /\ fs' = r.f
    /\ writes' = writes \cup {<<i, q>> : q \in r.wrote}
    /\ UNCHANGED <<inputs, env, results, dpc, successful, pool_terminated>>

Start(i) == job[i].pc = "start" /\ Apply(i, StartJob(i, job[i], fs))

Open(i) == job[i].pc = "open" /\ Apply(i, OpenDoc(i, job[i], fs))

Page(i) == job[i].pc = "page" /\ Apply(i, PageStep(i, job[i], fs))

Image(i) == job[i].pc = "image" /\ Apply(i, ImageStep(i, job[i], fs))

MdOpen(i) == job[i].pc = "mdopen" /\ Apply(i, OpenOutput(i, job[i], fs))

MdWrite(i) == job[i].pc = "mdwrite" /\ Apply(i, WriteOutput(i, job[i], fs))

Close(i) == job[i].pc = "close" /\ Apply(i, CloseDoc(i, job[i], fs))

FbConvert(i) == job[i].pc = "fallback" /\ Apply(i, Fallback(i, job[i], fs))

FbOpen(i) == job[i].pc = "fbopen" /\ Apply(i, FallbackOpen(i, job[i], fs))

FbWrite(i) == job[i].pc = "fbwrite" /\ Apply(i, FallbackWrite(i, job[i], fs))

\* process_single_pdf returns and the worker reports the task's result
Return(i) ==
    /\ job[i].pc = "ret"
    /\ job' = [job EXCEPT ![i] = [JobStep(i, @, fs).js EXCEPT !.reports = @ + 1]]
    /\ results' = [results EXCEPT ![i] = ProcessSinglePdfResult(job[i])]
    /\ UNCHANGED <<inputs, env, fs, writes, dpc, successful, pool_terminated>>

\* results = pool.map(...) returns and successful = sum(results); an exception a
\* task raised is re-raised by map and lands in "except Exception": terminate
Collect ==
    /\ dpc = "map"
    /\ MapReady
    /\ dpc' = "done"
    /\ IF \E i \in Tasks : results[i] = "exc"
       THEN pool_terminated' = TRUE /\ successful' = successful
       ELSE pool_terminated' = pool_terminated /\ successful' = SumResults(results)
    /\ UNCHANGED <<inputs, env, fs, job, writes, results>>

Next ==
    \/ \E i \in Tasks : TakeTask(i)
    \/ \E i \in Tasks : Start(i)
    \/ \E i \in Tasks : Open(i)
    \/ \E i \in Tasks : Page(i)
    \/ \E i \in Tasks : Image(i)
    \/ \E i \in Tasks : MdOpen(i)
    \/ \E i \in Tasks : MdWrite(i)
    \/ \E i \in Tasks : Close(i)
    \/ \E i \in Tasks : FbConvert(i)
    \/ \E i \in Tasks : FbOpen(i)
    \/ \E i \in Tasks : FbWrite(i)
    \/ \E i \in Tasks : Return(i)
    \/ Collect

\* ------------------------------------------------------------- inputs

NameA == <<"a", ".", "pdf">>

NameB == <<"b", ".", "v2", ".", "pdf">>

NameX == <<"x", ".", "pdf">>

\* a source directory whose name ends in ".md"
DirAMd == <<"a", ".", "md">>

\* the PDFs a source tree may hold, as paths relative to source_dir
PathUniverse == {<<NameA>>, <<NameB>>, <<DirAMd, NameX>>}

RootOnly == (<<>> :> DirNode)

\* output_dir as a run finds it: empty, or holding an earlier run's file at path out
FsWith(out) == (out :> FileNode(<<"old">>)) @@ Mkdir(RootOnly, Front(out))

EmptyFs == [q \in {} |-> DirNode]

\* the source tree that holds exactly the PDFs of the list files
TreeOf(files) ==
    LET pdfs == {files[j] : j \in DOMAIN files}
    IN  [q \in UNION {Prefixes(p) : p \in pdfs} |->
            IF q \in pdfs THEN FileNode(<<>>) ELSE DirNode]

\* pool.map is about to hand out the tasks of pdf_info_list
JobsQueued ==
    /\ job = [i \in Tasks |-> Queued]
    /\ writes = {}
    /\ results = [i \in Tasks |-> "pending"]
    /\ dpc = "map"
    /\ successful = 0
    /\ pool_terminated = FALSE

\* the first run of the parallel tool over the tree of pdf_files
StartState ==
    /\ JobsQueued
    /\ tree = TreeOf(pdf_files)
    /\ case_fold = FALSE
    /\ image_folder = <<ImagesName>>
    /\ run = 1
    /\ first_md = EmptyFs

\* one PDF, any document, any failure plan, one worker
Init ==
    /\ pdf_files \in {<<p>> : p \in PathUniverse}
    /\ docs \in [1..1 -> DocSet]
    /\ embed_images \in BOOLEAN
    /\ beh \in [1..1 -> BehSet(docs[1], embed_images)]
    /\ num_workers = 1
    /\ fs \in {RootOnly, FsWith(OutputPath(pdf_files[1]))}
    /\ StartState

Spec == Init /\ [][Next]_vars

\* the document and the failure plans of the pool runs
PoolDoc == <<1>>

PoolBehSet ==
    {[start |-> FALSE, prim |-> NoFail, fb |-> "none"],
     [start |-> TRUE, prim |-> NoFail, fb |-> "none"],
     [start |-> FALSE, prim |-> Fail("open", 0, 0), fb |-> "none"],
     [start |-> FALSE, prim |-> Fail("mdwrite", 0, 0), fb |-> "convert"]}

Distinct(s) == \A a, b \in DOMAIN s : a # b => s[a] # s[b]

\* NumFiles distinct PDFs, up to MaxWorkers workers
PoolInit ==
    /\ pdf_files \in {s \in [1..NumFiles -> PathUniverse] : Distinct(s)}
    /\ docs = [i \in 1..NumFiles |-> PoolDoc]
    /\ embed_images \in BOOLEAN
    /\ beh \in [1..NumFiles -> PoolBehSet]
    /\ num_workers \in 1..MaxWorkers
    /\ fs = RootOnly
    /\ StartState

PoolSpec == PoolInit /\ [][Next]_vars

\* the failure plans of the runs checked for termination: a clean conversion, an
\* exception out of process_pdf, a failed primary attempt with a fallback
FairBehSet ==
    {[start |-> FALSE, prim |-> NoFail, fb |-> "none"],
     [start |-> TRUE, prim |-> NoFail, fb |-> "none"],
     [start |-> FALSE, prim |-> Fail("open", 0, 0), fb |-> "none"]}

FairPoolInit ==
    /\ pdf_files \in {s \in [1..NumFiles -> PathUniverse] : Distinct(s)}
    /\ docs = [i \in 1..NumFiles |-> PoolDoc]
    /\ embed_images = FALSE
    /\ beh \in [1..NumFiles -> FairBehSet]
    /\ num_workers \in 1..MaxWorkers
    /\ fs = RootOnly
    /\ StartState

\* KeyboardInterrupt reaches the parent while it waits in pool.map: pool.terminate()
\* kills every worker process where it stands, pool.join() reaps them; tasks not yet
\* handed out are dropped with the pool
Interrupt ==
    /\ dpc = "map"
    /\ dpc' = "interrupted"
    /\ pool_terminated' = TRUE
    /\ job' = [i \in Tasks |-> IF i \in Active THEN [job[i] EXCEPT !.pc = "killed"]
                                ELSE job[i]]
    /\ UNCHANGED <<inputs, env, fs, writes, results, successful>>

NextInt == Next \/ Interrupt

\* the pool runs with an interrupt that may arrive at any moment of the map
IntSpec == PoolInit /\ [][NextInt]_vars

\* ------------------------------------------------- discovery and the main block

\* str.lower() on the tokens that names are made of
LowerTok(t) ==
    CASE t = "PDF" -> "pdf"
      [] t = "Pdf" -> "pdf"
      [] t = "B" -> "b"
      [] OTHER -> t

LowerName(name) == [j \in 1..Len(name) |-> LowerTok(name[j])]

\* name.endswith(".pdf")
EndsWithDotPdf(name) ==
    Len(name) >= 2 /\ SubSeq(name, Len(name) - 1, Len(name)) = <<".", "pdf">>

\* the pattern "*.pdf" of rglob against one name: pathlib folds the case of pattern
\* and name only where the platform's paths are case-insensitive
MatchesGlobPdf(name) ==
    EndsWithDotPdf(IF case_fold THEN LowerName(name) ELSE name)

\* list(source_dir.rglob("*.pdf")): every entry below the root whose name matches,
\* files and directories alike
CollectPdfFiles(t) == {q \in DOMAIN t \ {<<>>} : MatchesGlobPdf(Last(q))}

\* the files process_directory hands to process_pdf: os.walk's files whose
\* lower-cased name ends in ".pdf"
ProcessDirectoryFiles(t) ==
    {q \in DOMAIN t \ {<<>>} : IsFile(t, q) /\ EndsWithDotPdf(LowerName(Last(q)))}

\* what a source tree may hold: PDFs in lower, upper and mixed case, one of them in
\* a subdirectory, another file, and a directory whose name ends in ".pdf"
TreeEntries ==
    {[path |-> <<NameA>>, node |-> FileNode(<<>>)],
     [path |-> <<<<"B", ".", "PDF">>>>, node |-> FileNode(<<>>)],
     [path |-> <<<<"sub">>, <<"d", ".", "Pdf">>>>, node |-> FileNode(<<>>)],
     [path |-> <<<<"c", ".", "txt">>>>, node |-> FileNode(<<>>)],
     [path |-> <<<<"e", ".", "pdf">>>>, node |-> DirNode]}

TreeFrom(S) ==
    [q \in {<<>>} \cup UNION {Prefixes(e.path) : e \in S} |->
        IF \E e \in S : e.path = q THEN (CHOOSE e \in S : e.path = q).node
        ELSE DirNode]

TreeSet == {TreeFrom(S) : S \in {T \in SUBSET TreeEntries : Cardinality(T) <= MaxEntries}}

Orderings(S) == {s \in [1..Cardinality(S) -> S] : Distinct(s)}

\* mp.cpu_count()
CpuCount == 2

\* what the engines do with a discovered path: a directory cannot be opened by
\* either engine; a file converts, or fails in fitz.open and is left to markitdown
MainBehSet(t, q) ==
    IF IsDir(t, q)
    THEN {[start |-> FALSE, prim |-> Fail("open", 0, 0), fb |-> "convert"]}
    ELSE {[start |-> FALSE, prim |-> NoFail, fb |-> "none"],
          [start |-> FALSE, prim |-> Fail("open", 0, 0), fb |-> "none"]}

\* mutant: the missing source directory is reported but the tool goes on
AfterExistsCheckNoExit == "collect"

\* if not source_dir.exists(): exit(1)
AfterExistsCheck == IF <<>> \in DOMAIN tree THEN "collect" ELSE "exit1"

\* the __main__ block up to the call of process_pdfs_parallel
Main ==
    /\ dpc = "main"
    /\ dpc' = AfterExistsCheck
    /\ fs' = IF AfterExistsCheck = "exit1" THEN fs ELSE Mkdir(fs, <<>>)
    /\ UNCHANGED <<inputs, env, job, writes, results, successful, pool_terminated>>

\* process_pdfs_parallel up to the creation of the pool
Discover ==
    /\ dpc = "collect"
    /\ LET found == CollectPdfFiles(tree)
           n     == Cardinality(found)
       IN  IF n = 0
           THEN /\ dpc' = "done"
                /\ UNCHANGED <<inputs, job, results>>
           ELSE /\ dpc' = "map"
                /\ pdf_files' \in Orderings(found)
                /\ docs' = [i \in 1..n |-> PoolDoc]
                /\ beh' \in {b \in [1..n -> UNION {MainBehSet(tree, q) : q \in found}] :
                                \A i \in 1..n : b[i] \in MainBehSet(tree, pdf_files'[i])}
                /\ num_workers' = IF num_workers = 0
                                  THEN (IF CpuCount < n THEN CpuCount ELSE n)
                                  ELSE num_workers
                /\ job' = [i \in 1..n |-> Queued]
                /\ results' = [i \in 1..n |-> "pending"]
                /\ UNCHANGED embed_images
    /\ UNCHANGED <<env, fs, writes, successful, pool_terminated>>

MainNext == Main \/ Discover \/ Next

\* the parallel tool from its command line on: any source tree or none, no output
\* directory yet, --workers absent (0) or 1
MainInit ==
    /\ tree \in TreeSet \cup {EmptyFs}
    /\ case_fold \in BOOLEAN
    /\ embed_images \in BOOLEAN
    /\ num_workers \in {0, 1}
    /\ pdf_files = <<>> /\ docs = <<>> /\ beh = <<>>
    /\ job = <<>> /\ results = <<>>
    /\ fs = EmptyFs
    /\ writes = {}
    /\ dpc = "main"
    /\ successful = 0
    /\ pool_terminated = FALSE
    /\ image_folder = <<ImagesName>>
    /\ run = 1
    /\ first_md = EmptyFs

MainSpec == MainInit /\ [][MainNext]_vars

\* ------------------------------------------------------ a second invocation

\* the Markdown files of the output tree, with their bytes
MdFiles(f) ==
    LET md == {q \in DOMAIN f \ {<<>>} :
                  /\ IsFile(f, q)
                  /\ Len(Last(q)) >= 2
                  /\ SubSeq(Last(q), Len(Last(q)) - 1, Len(Last(q))) = <<".", "md">>}
    IN  [q \in md |-> f[q].data]

\* the tool is started again with the same command line over the same source tree;
\* the output tree is what the first invocation left, the engines behave as before
Rerun ==
    /\ dpc = "done"
    /\ run = 1
    /\ run' = 2
    /\ first_md' = MdFiles(fs)
    /\ job' = [i \in Tasks |-> Queued]
    /\ writes' = {}
    /\ results' = [i \in Tasks |-> "pending"]
    /\ dpc' = "map"
    /\ successful' = 0
    /\ pool_terminated' = FALSE
    /\ UNCHANGED <<inputs, fs, tree, case_fold, image_folder>>

TwiceNext == Next \/ Rerun

\* one PDF with any document and failure plan, or the pool over several PDFs
TwiceInit == Init \/ PoolInit

TwiceSpec == TwiceInit /\ [][TwiceNext]_vars

\* ------------------------------------------------------- the v1 converter

ImageV1(i) == job[i].pc = "image" /\ Apply(i, ImageStepV1(i, job[i], fs))

\* process_directory of v1 calling process_pdf for a file: the job of the v3
\* converter with v1's image loop
V1Next ==
    \/ \E i \in Tasks : TakeTask(i)
    \/ \E i \in Tasks : Start(i)
    \/ \E i \in Tasks : Open(i)
    \/ \E i \in Tasks : Page(i)
    \/ \E i \in Tasks : ImageV1(i)
    \/ \E i \in Tasks : MdOpen(i)
    \/ \E i \in Tasks : MdWrite(i)
    \/ \E i \in Tasks : Close(i)
    \/ \E i \in Tasks : FbConvert(i)
    \/ \E i \in Tasks : FbOpen(i)
    \/ \E i \in Tasks : FbWrite(i)
    \/ \E i \in Tasks : Return(i)
    \/ Collect

\* --image-folder: the default, or a relative path of two segments
ImageFolderSet == {<<ImagesName>>, <<<<"assets">>, <<"img">>>>}

\* v1 over one PDF: it has no doc.close() and nothing raises before the try block
V1Init ==
    /\ pdf_files \in {<<p>> : p \in PathUniverse}
    /\ docs \in [1..1 -> DocSet]
    /\ embed_images \in BOOLEAN
    /\ beh \in [1..1 -> {b \in BehSet(docs[1], embed_images) :
                            ~b.start /\ b.prim.kind # "close"}]
    /\ num_workers = 1
    /\ fs \in {RootOnly, FsWith(OutputPath(pdf_files[1]))}
    /\ JobsQueued
    /\ tree = TreeOf(pdf_files)
    /\ case_fold = FALSE
    /\ image_folder \in ImageFolderSet
    /\ run = 1
    /\ first_md = EmptyFs

V1Spec == V1Init /\ [][V1Next]_vars

\* every worker process keeps running and every engine call returns
FairPoolSpec == FairPoolInit /\ [][Next]_vars /\ WF_vars(Next)

\* ------------------------------------------------------------- claims

Ended(i) == job[i].pc = "done"

BothFailed(i) == Ended(i) /\ job[i].prim = "failed" /\ job[i].fb = "failed"

Out(i) == OutputPath(pdf_files[i])

\* C1: when primary extraction and the fallback both fail, no Markdown file exists
\* at the job's target path when the job ends.
C1_NoOutputWhenBothFail == \A i \in Tasks : BothFailed(i) => ~IsFile(fs, Out(i))

\* C2: a file whose primary extraction and fallback both fail is collected as a
\* failure and is not counted in the reported success count.
C2_BothFailedIsFailure ==
    /\ \A i \in Tasks : BothFailed(i) => results[i] = "False"
    /\ dpc = "done" =>
          successful <= Cardinality({i \in Tasks : ~BothFailed(i)})

\* C3: a job whose primary extraction failed has invoked the fallback exactly once
\* by the time it returns, and never more than once.
C3_FallbackExactlyOnce ==
    \A i \in Tasks :
        /\ job[i].fb_calls <= 1
        /\ (job[i].pc \in {"ret", "done"} /\ job[i].prim = "failed")
              => job[i].fb_calls = 1

C3_Witness ==
    \E i \in Tasks : Ended(i) /\ job[i].prim = "failed" /\ job[i].fb_calls = 1

\* C4: after a failed primary attempt and a successful fallback, the output file
\* holds the fallback's text and nothing else.
C4_FallbackTextVerbatim ==
    \A i \in Tasks :
        (Ended(i) /\ job[i].prim = "failed" /\ job[i].fb = "ok")
            => IsFile(fs, Out(i)) /\ fs[Out(i)].data = FallbackText(i)

\* the primary attempt had left part of its own text in the file, or an earlier
\* run's file was there
C4_Witness ==
    \E i \in Tasks :
        /\ Ended(i) /\ job[i].fb = "ok"
        /\ beh[i].prim.kind \in {"mdwrite", "close"}
        /\ Len(docs[i]) > 0
        /\ fs[Out(i)].data = FallbackText(i)

\* C5: no two jobs ever write the same path.
C5_NoSharedPath == \A a, b \in writes : a[2] = b[2] => a[1] = b[1]

C7_AllRunOnceThenFinish ==
    /\ <>(dpc = "done")
    /\ [](dpc = "done" =>
            \A i \in Tasks :
                /\ job[i].runs = 1 /\ job[i].reports = 1 /\ Ended(i)
                /\ job[i].worker \in 1..num_workers
                /\ results[i] \in {"True", "False"})

\* several workers were busy at once before the dispatcher finished
C7_Witness ==
    /\ dpc = "done"
    /\ \E i, j \in Tasks : i # j /\ job[i].worker # job[j].worker

\* the results of a pool of one worker: the jobs run one after the other, in list
\* order, on the same output tree
RECURSIVE SeqRun(_, _, _)
SeqRun(i, f, acc) ==
    IF i > Len(pdf_files) THEN acc
    ELSE LET r == RunJob(i, [Queued EXCEPT !.pc = "start"], f)
         IN  SeqRun(i + 1, r.f, Append(acc, ProcessSinglePdfResult(r.js)))

SeqResults == SeqRun(1, RootOnly, <<>>)

\* C8: whatever the worker count and the completion order, every file's outcome is
\* the one a single worker produces for the same files and the same behaviour.
C8_SameAsOneWorker == dpc = "done" => results = SeqResults

\* ---- reading a Markdown file back

\* the n-th smallest element of a set of positions
Nth(S, n) == CHOOSE x \in S : Cardinality({y \in S : y < x}) = n - 1

HeaderPos(c) == {j \in 1..Len(c) : c[j] = "### Page "}

ImagePos(c) == {j \in 1..Len(c) : c[j] = "![Image]("}

At(c, pos, piece) ==
    pos + Len(piece) - 1 <= Len(c) /\ SubSeq(c, pos, pos + Len(piece) - 1) = piece

\* what follows "![Image](" for image img_index (0-based) of page page_num
Target(i, page_num, img_index) ==
    IF embed_images
    THEN <<"data:image/", ImgExt(img_index), ";base64,">>
            \o B64(ImgBytes(i, page_num, img_index)) \o <<")">>
    ELSE <<"images", "/">>
            \o ImageFilename(page_num, img_index, ImgExt(img_index)) \o <<")">>

\* the n-th section of c: its header reads n, its text follows the header, all its
\* image references come after the text, in extraction order, before the next header
SectionOk(i, c, n) ==
    LET H    == HeaderPos(c)
        h    == Nth(H, n)
        stop == IF n < Cardinality(H) THEN Nth(H, n + 1) ELSE Len(c) + 1
        tpos == h + 1 + Len(Decimal(n)) + 2
        tend == tpos + Len(PageText(i, n)) - 1
        I    == {q \in ImagePos(c) : h < q /\ q < stop}
    IN  /\ At(c, h + 1, Decimal(n) \o <<"\n", "\n">> \o PageText(i, n))
        /\ tend < stop
        /\ \A q \in I : q > tend
        /\ Cardinality(I) = docs[i][n]
        /\ \A m \in 1..Cardinality(I) : At(c, Nth(I, m) + 1, Target(i, n, m - 1))

\* C9: after a successful primary extraction the Markdown file has one section per
\* page, numbered 1.. in file order, each with its text before its image
\* references, these in extraction order.
C9_PageSections ==
    \A i \in Tasks :
        (Ended(i) /\ job[i].prim = "ok") =>
            LET c == fs[Out(i)].data
            IN  /\ IsFile(fs, Out(i))
                /\ Cardinality(HeaderPos(c)) = Len(docs[i])
                /\ \A q \in ImagePos(c) : HeaderPos(c) # {} /\ q > Nth(HeaderPos(c), 1)
                /\ \A n \in 1..Len(docs[i]) : SectionOk(i, c, n)

\* two pages, both with images
C9_Witness ==
    \E i \in Tasks :
        /\ Ended(i) /\ job[i].prim = "ok"
        /\ Len(docs[i]) = 2 /\ docs[i][1] = 2 /\ docs[i][2] >= 1

\* ---- reading an image filename back

RECURSIVE DigitsValue(_)
\* the number a sequence of decimal digits writes; -1 when one is no digit
DigitsValue(ds) ==
    IF Len(ds) = 0 THEN 0
    ELSE LET d == {v \in 0..9 : DigitStr[v + 1] = Last(ds)}
             rest == DigitsValue(Front(ds))
         IN  IF d = {} \/ rest < 0 THEN -1 ELSE 10 * rest + (CHOOSE v \in d : TRUE)

\* name is image_{3 digits}_{2 digits}.{ext}
MatchesPattern(name) ==
    /\ Len(name) = 9
    /\ name[1] = "image_" /\ name[5] = "_" /\ name[8] = "."
    /\ DigitsValue(SubSeq(name, 2, 4)) >= 0
    /\ DigitsValue(SubSeq(name, 6, 7)) >= 0

PageOf(name) == DigitsValue(SubSeq(name, 2, 4))

IndexOf(name) == DigitsValue(SubSeq(name, 6, 7))

\* the image files job i has written
ImageFiles(i) ==
    {w[2] : w \in {v \in writes : v[1] = i /\ Front(v[2]) = ImageFolder(pdf_files[i])}}

\* the filenames referenced in Markdown text c
RefNames(c) ==
    {SubSeq(c, q + 3, q + 11) : q \in {r \in ImagePos(c) : r + 11 <= Len(c)}}

\* the (page, index) pairs of a document, 1-based
ImageIds(doc) == {<<p, k>> : p \in 1..Len(doc), k \in 1..MaxImgs} \cap
                 {pk \in (1..MaxPages) \X (1..MaxImgs) : pk[2] <= doc[pk[1]]}

\* C10: in folder mode the image files of a document are named
\* image_{page:03d}_{index:02d}.{ext} with 1-based page and index, no two alike: one
\* file and one reference per image; pages with 2 and 0 images give image_001_01 and
\* image_001_02 and nothing else.
C10_ImageNames ==
    \A i \in Tasks :
        (Ended(i) /\ job[i].prim = "ok" /\ ~embed_images) =>
            LET names == {Last(q) : q \in ImageFiles(i)}
                refs  == RefNames(fs[Out(i)].data)
            IN  /\ \A nm \in names : MatchesPattern(nm)
                /\ {<<PageOf(nm), IndexOf(nm)>> : nm \in names} = ImageIds(docs[i])
                /\ Cardinality(names) = Cardinality(ImageIds(docs[i]))
                /\ Cardinality(names) = job[i].image_count
                /\ refs = names
                /\ Cardinality(ImagePos(fs[Out(i)].data)) = Cardinality(names)
                /\ docs[i] = <<2, 0>> =>
                      {Front(Front(nm)) : nm \in names} =
                          {<<"image_", "0", "0", "1", "_", "0", "1">>,
                           <<"image_", "0", "0", "1", "_", "0", "2">>}

C10_Witness ==
    \E i \in Tasks :
        /\ Ended(i) /\ job[i].prim = "ok" /\ ~embed_images
        /\ docs[i] = <<2, 0>>
        /\ Cardinality(ImageFiles(i)) = 2

\* ---- embed mode and folder mode

Base64Pos(c) == {j \in 1..Len(c) : c[j] = ";base64,"}

TotalImages(doc) == Cardinality(ImageIds(doc))

\* C11: with embed_images the job writes no image file and creates no image folder;
\* without it nothing the primary path assembles or writes holds a base64 payload;
\* every image of a document is placed the same way.
C11_ModesExclusive ==
    \A i \in Tasks :
        LET c == Join(job[i].parts)
        IN  /\ embed_images =>
                /\ \A w \in writes : w[1] = i => w[2] = Out(i)
                /\ ImageFolder(pdf_files[i]) \notin DOMAIN fs
                /\ Cardinality(Base64Pos(c)) = Cardinality(ImagePos(c))
            /\ ~embed_images =>
                /\ Base64Pos(c) = {}
                /\ IsFile(fs, Out(i)) => Base64Pos(fs[Out(i)].data) = {}
                /\ job[i].prim = "ok" =>
                      Cardinality(ImageFiles(i)) = Cardinality(ImagePos(c))

\* embed mode, several images converted
C11_Witness ==
    \E i \in Tasks :
        /\ embed_images /\ Ended(i) /\ job[i].prim = "ok"
        /\ job[i].image_count >= 2
        /\ Cardinality(Base64Pos(fs[Out(i)].data)) = job[i].image_count

\* ---- failures of image writes

ImageWriteFails(i) == ~embed_images /\ beh[i].prim.kind \in {"mkdir", "imgwrite"}

PastExtraction(i) == job[i].pc \notin {"queued", "start", "open", "page", "image"}

\* C12: in folder mode a failed image write fails the document's primary conversion:
\* extraction stops at that image and no Markdown assembled by the primary path is
\* written.
C12_ImageWriteFailureFailsPrimary ==
    \A i \in Tasks :
        ImageWriteFails(i) =>
            /\ job[i].page <= beh[i].prim.p
            /\ job[i].page = beh[i].prim.p => job[i].img <= beh[i].prim.k
            /\ job[i].prim # "ok"
            /\ PastExtraction(i) =>
                  /\ job[i].prim = "failed"
                  /\ job[i].page = beh[i].prim.p /\ job[i].img = beh[i].prim.k
                  /\ IsFile(fs, Out(i)) =>
                        HeaderPos(fs[Out(i)].data) = {} /\ ImagePos(fs[Out(i)].data) = {}

\* the first image of a two-page document could not be written
C12_Witness ==
    \E i \in Tasks :
        /\ Ended(i) /\ beh[i].prim = Fail("imgwrite", 1, 0)
        /\ Len(docs[i]) = 2 /\ job[i].fb = "ok"

\* C13: when extraction succeeded and opening or writing the output file fails, the
\* job ends without invoking the fallback and without a second write attempt.
C13_NoFallbackAfterWriteFailure ==
    \A i \in Tasks :
        beh[i].prim.kind \in {"mdopen", "mdwrite"} =>
            job[i].fb_calls = 0 /\ job[i].pc \notin {"fallback", "fbopen", "fbwrite"}

\* C14: on the primary path the output file is opened only after every page has been
\* extracted and every image written or encoded, and it is written at once, whole.
C14_OutputAfterAssembly ==
    \A i \in Tasks :
        /\ job[i].pc \in {"start", "open", "page", "image", "mdopen"} =>
              <<i, Out(i)>> \notin writes
        /\ job[i].pc = "mdwrite" =>
              /\ Len(job[i].parts) = Len(docs[i]) + TotalImages(docs[i])
              /\ job[i].image_count = TotalImages(docs[i])
              /\ ~embed_images =>
                    /\ Cardinality(ImageFiles(i)) = TotalImages(docs[i])
                    /\ \A q \in ImageFiles(i) : IsFile(fs, q) /\ fs[q].data # <<>>
              /\ fs[Out(i)].data = <<>>
        /\ job[i].pc = "close" => fs[Out(i)].data = Join(job[i].parts)

\* the file of a two-page document with images has just been opened
C14_Witness ==
    \E i \in Tasks :
        /\ job[i].pc = "mdwrite" /\ ~embed_images
        /\ Len(docs[i]) = 2 /\ job[i].image_count >= 2

C15_InterruptLeavesNoPartialOutput ==
    dpc = "interrupted" =>
        \A i \in Tasks :
            /\ job[i].pc \in {"queued", "done", "killed"}
            /\ (job[i].pc = "killed" /\ <<i, Out(i)>> \in writes /\ IsFile(fs, Out(i))) =>
                  fs[Out(i)].data \in {Join(job[i].parts), FallbackText(i)}

\* ---- discovery

Discovered == {pdf_files[j] : j \in DOMAIN pdf_files}

\* C16: the files the parallel tool collects are the files of the tree whose
\* extension is the PDF extension in any letter case, the set the sequential walk
\* of process_directory visits.
C16_DiscoversAnyCase ==
    dpc \in {"map", "done"} => Discovered = ProcessDirectoryFiles(tree)

\* C17: with no source directory the tool stops at exit(1): the output directory is
\* not created, no file is discovered, no job exists.
C17_MissingSourceExits ==
    <<>> \notin DOMAIN tree =>
        /\ dpc \in {"main", "exit1"}
        /\ fs = EmptyFs
        /\ pdf_files = <<>>
        /\ job = <<>>
        /\ writes = {}

\* the tool has exited with code 1
C17_Witness == dpc = "exit1" /\ <<>> \notin DOMAIN tree /\ fs = EmptyFs

\* ---- running twice

\* C18: a second run over the unchanged source tree, with engines that behave as in
\* the first, leaves every Markdown file with the bytes the first run left, and no
\* other Markdown file.
C18_RerunSameBytes == (run = 2 /\ dpc = "done") => MdFiles(fs) = first_md

\* the second run has rewritten a converted document with images
C18_Witness ==
    /\ run = 2 /\ dpc = "done"
    /\ \E i \in Tasks :
          /\ job[i].prim = "ok" /\ job[i].image_count >= 1
          /\ <<i, Out(i)>> \in writes
          /\ Out(i) \in DOMAIN first_md /\ first_md[Out(i)] = Join(job[i].parts)

\* ---- image references

\* the position of the ")" that closes the reference opened at position q of c
CloseOf(c, q) == CHOOSE j \in (q + 1)..Len(c) :
                    c[j] = ")" /\ \A m \in (q + 1)..(j - 1) : c[m] # ")"

\* the texts of the image references in Markdown text c
RefTexts(c) ==
    {SubSeq(c, q + 1, CloseOf(c, q) - 1) :
        q \in {r \in ImagePos(c) : \E j \in (r + 1)..Len(c) : c[j] = ")"}}

RECURSIVE SplitPath(_)
\* a relative path text as the sequence of its names
SplitPath(t) ==
    IF \A j \in 1..Len(t) : t[j] # "/"
    THEN <<t>>
    ELSE LET d == CHOOSE j \in 1..Len(t) :
                      t[j] = "/" /\ \A m \in 1..(j - 1) : t[m] # "/"
         IN  <<SubSeq(t, 1, d - 1)>> \o SplitPath(SubSeq(t, d + 1, Len(t)))

\* the paths other than its Markdown file that job i has written
ImagePaths(i) == {w[2] : w \in {v \in writes : v[1] = i}} \ {Out(i)}

\* C19: in folder mode of the v1 converter every reference in the Markdown,
\* resolved against the Markdown file's directory, names an image file the job
\* wrote, and every image file is referenced, whatever --image-folder is.
C19_ReferencesResolve ==
    \A i \in Tasks :
        (Ended(i) /\ job[i].prim = "ok" /\ ~embed_images) =>
            /\ {Front(Out(i)) \o SplitPath(t) : t \in RefTexts(fs[Out(i)].data)}
                  = ImagePaths(i)
            /\ \A q \in ImagePaths(i) : IsFile(fs, q)

====
